---- MODULE Spec2Model ----
(***************************************************************************)
(* Workflow-run reconciliation of SVOps: the stored WorkflowRun row, the   *)
(* external orchestrator's run, the watch task, the Stop/Retry/GetStatus   *)
(* commands and the two chain controllers that walk DAG_EXECUTION_CHAIN.   *)
(***************************************************************************)
EXTENDS Integers, Sequences, FiniteSets, TLC

\* ------------------------------------------------------------------ bounds
MaxClock == 2        \* wall-clock values 1..MaxClock
MaxAttempts == 2     \* polls of one watch task (max_attempts in the code)
MaxChecks == 2       \* polls of one chain monitor (total_checks in the code)
MaxCalls == 2        \* command invocations (stop / retry / status) per behaviour
MaxRuns == 4         \* runs triggered in one behaviour
MaxIters == 2        \* polls of one chain controller task (the range(...) in the code)
MaxCallers == 2      \* concurrent callers of _make_request
MaxFailures == 4     \* failures the breaker counts in one behaviour
MaxNow == 33         \* last instant of the breaker's clock
MaxFine == 1         \* one-second steps of the clock after each longer step
MaxTry == 7          \* largest max_attempts of a RetryConfig
MaxDelay == 2        \* largest base delay of a RetryConfig
MaxRequests == 2     \* trigger requests the endpoints are followed for
MaxCreators == 2     \* concurrent callers of get_or_create_workflow
MaxLate == 63        \* last instant of the clock of one caller's operations

\* --------------------------------------------------------------- constants
NoDate == 0          \* Optional[datetime] = None

DAG_EXECUTION_CHAIN ==
    <<"data_processing_pipeline", "ml_training_pipeline", "simple_workflow_example">>

ChainLen == Len(DAG_EXECUTION_CHAIN)

RunIds == 1..MaxRuns

\* WorkflowStatus
WorkflowStatus ==
    {"queued", "running", "success", "failed", "up_for_retry", "up_for_reschedule",
     "upstream_failed", "skipped", "removed", "scheduled"}

\* the statuses the specification calls terminal
TerminalStatus == {"success", "failed", "upstream_failed", "skipped", "removed"}

\* TaskStatus
TaskStatus == {"pending", "running", "completed", "failed", "cancelled"}

\* states the external orchestrator reports for a run that has finished
ExtFinalStates == {"success", "failed", "upstream_failed"}

\* ------------------------------------------------------------------- state
VARIABLES
    now,        \* wall clock (datetime.now())
    ext,        \* the external orchestrator's dag runs, by run id
    runs,       \* the workflow_runs table, by run id
    task,       \* status of the parent task row
    watch,      \* the watch task (monitor_workflow_run)
    stop,       \* an executing stop_workflow_run
    retry,      \* an executing retry_workflow_run
    get,        \* an executing get_workflow_run_status
    cm,         \* the chain monitor (monitor_dag_chain_completion)
    published,  \* number of events published, by event type
    calls,      \* number of commands invoked so far
    forced,     \* runs whose stored status was last forced by StopRun
    ctl,        \* the chain controller (trigger_next_dag_after_completion)
    stage,      \* index in DAG_EXECUTION_CHAIN of the DAG each run belongs to
    conf,       \* chain bookkeeping in each run's parameters
    circuit,    \* airflow_circuit_breaker: state, failure_count, last_failure_time
    req,        \* the executing _make_request of each caller
    streak,     \* failures of the wrapped call since its last success
    tripped_at, \* time of the breaker's last move to OPEN
    retripped,  \* whether that move was the failure of a HALF_OPEN trial call
    rt,         \* an executing retry_async / retry_sync
    cfg,        \* its RetryConfig
    cache,      \* the status cache (workflow_status:<workflow>:<run>), by run id
    reply,      \* the exception the last command raised to its endpoint
    run_id,     \* the dag_run_id trigger_workflow generated for each run
    watch2,     \* a watch task started by monitor_active_workflows
    wf_rows,    \* number of rows of the workflows table, by dag_id
    goc         \* the executing get_or_create_workflow of each caller

\* the variables of the retry policy and the circuit breaker
resilience == <<circuit, req, streak, tripped_at, retripped, rt, cfg>>

\* the variables of the workflow runs and their tasks, the clock apart
\* the variables of the workflows table
catalog == <<wf_rows, goc>>

workflows == <<ext, runs, task, watch, stop, retry, get, cm, published, calls, forced,
               ctl, stage, conf, cache, reply, run_id, watch2, wf_rows, goc>>

vars == <<now, ext, runs, task, watch, stop, retry, get, cm, published, calls, forced,
          ctl, stage, conf, circuit, req, streak, tripped_at, retripped, rt, cfg,
          cache, reply, run_id, watch2, wf_rows, goc>>

NoExt == [state |-> "none", start_date |-> NoDate, end_date |-> NoDate]

\* no dag_run_id
NoRunId == <<>>
NoRow == [status |-> "absent", start_date |-> NoDate, end_date |-> NoDate]

\* a dag run just created by trigger_dag, and the row trigger_workflow stores for it
QueuedExt == [state |-> "queued", start_date |-> NoDate, end_date |-> NoDate]
QueuedRow == [status |-> "queued", start_date |-> NoDate, end_date |-> NoDate]

EventTypes ==
    {"workflow_triggered", "workflow_started", "workflow_completed", "workflow_failed",
     "workflow_stopped", "workflow_retried"}

\* ---------------------------------------------------------- pure functions
\* the dict of _map_airflow_status in workflow_tasks.py: state string to WorkflowStatus
TaskStatusMapping ==
    ("queued" :> "queued") @@ ("running" :> "running") @@ ("success" :> "success")
    @@ ("failed" :> "failed") @@ ("up_for_retry" :> "up_for_retry")
    @@ ("up_for_reschedule" :> "up_for_reschedule")
    @@ ("upstream_failed" :> "upstream_failed") @@ ("skipped" :> "skipped")
    @@ ("removed" :> "removed") @@ ("scheduled" :> "scheduled")

\* the dict of WorkflowUseCases._map_airflow_status
UseCaseStatusMapping ==
    ("queued" :> "queued") @@ ("running" :> "running") @@ ("success" :> "success")
    @@ ("failed" :> "failed") @@ ("up_for_retry" :> "up_for_retry")
    @@ ("up_for_reschedule" :> "up_for_reschedule")
    @@ ("upstream_failed" :> "upstream_failed") @@ ("skipped" :> "skipped")
    @@ ("removed" :> "removed") @@ ("scheduled" :> "scheduled")

\* mutation: a state the dict does not know is taken for a failure
MapAirflowStatusDefaultFailed(airflow_state) ==
    IF airflow_state \in DOMAIN TaskStatusMapping
    THEN TaskStatusMapping[airflow_state] ELSE "failed"

\* _map_airflow_status: mapping.get(airflow_state, WorkflowStatus.QUEUED)
MapAirflowStatus(airflow_state) ==
    IF airflow_state \in DOMAIN TaskStatusMapping
    THEN TaskStatusMapping[airflow_state] ELSE "queued"

\* WorkflowUseCases._map_airflow_status: the same lookup in its own dict
UseCaseMapAirflowStatus(airflow_state) ==
    IF airflow_state \in DOMAIN UseCaseStatusMapping
    THEN UseCaseStatusMapping[airflow_state] ELSE "queued"

\* WorkflowRun.update_status at time t
UpdateStatus(run, new_status, t) ==
    [run EXCEPT !.status = new_status,
                !.end_date = IF new_status \in {"success", "failed"} THEN t ELSE @]

\* the copy of start_date / end_date out of a dag-run response
CopyDates(run, data) ==
    [run EXCEPT !.start_date = IF data.start_date # NoDate THEN data.start_date ELSE @,
                !.end_date = IF data.end_date # NoDate THEN data.end_date ELSE @]

\* what _update_workflow_run_status and get_workflow_run_status make of a row
ApplyDagRunData(run, data, t) ==
    CopyDates(UpdateStatus(run, MapAirflowStatus(data.state), t), data)

Publish(type) == published' = [published EXCEPT ![type] = @ + 1]

\* "except Exception as e: raise ExternalServiceError(...)" around the body of a
\* use case: whatever is raised in it reaches the endpoint as ExternalServiceError
Wrapped(kind) == "ExternalServiceError"

\* ------------------------------------------------- retry policy (retry.py)
\* the exception classes the model tells apart; every one is an Exception
ExceptionClasses == {"Exception", "ConnectionError", "TimeoutError", "ExternalServiceError",
                     "ValueError"}

\* isinstance(e, classes)
IsInstance(kind, classes) == kind \in classes \/ "Exception" \in classes

EXTERNAL_SERVICE_RETRY ==
    [max_attempts |-> 3, delay |-> 2, backoff_factor |-> 2, max_delay |-> 30,
     exceptions |-> {"ConnectionError", "TimeoutError", "Exception"}]

\* the configurations retry_async / retry_sync are run with
RetryConfigs ==
    [max_attempts : 1..MaxTry, delay : 1..MaxDelay, backoff_factor : 1..2,
     max_delay : {3, 30}, exceptions : {{"ConnectionError"}, {"Exception"}}]
    \cup {EXTERNAL_SERVICE_RETRY}

Min(a, b) == IF a < b THEN a ELSE b

\* mutation: the exponent is the attempt number
CalculateDelayFromAttempt(attempt, config) ==
    Min(config.delay * (config.backoff_factor ^ attempt), config.max_delay)

\* calculate_delay before the jitter is applied
CalculateDelay(attempt, config) ==
    Min(config.delay * (config.backoff_factor ^ (attempt - 1)), config.max_delay)

NoError == [kind |-> "none", attempt |-> 0]

\* one execution of retry_async / retry_sync: attempt is the loop variable,
\* invoked counts the calls of func, sleeps the sleeps, delay is the length
\* (before jitter) of the sleep in progress and wake the instant it ends, error
\* is what reached the caller
IdleRetry ==
    [pc |-> "idle", attempt |-> 0, invoked |-> 0, sleeps |-> 0, delay |-> 0, wake |-> NoDate,
     last_exception |-> NoError, error |-> NoError, trial |-> FALSE]

\* the loop is entered: attempt = 1
FirstAttempt == [IdleRetry EXCEPT !.pc = "call", !.attempt = 1]

\* mutation: the loop sleeps after its last attempt too and then raises
RetryOnErrorSleepsLast(r, config, e) ==
    IF ~IsInstance(e.kind, config.exceptions)
    THEN [r EXCEPT !.pc = "raised", !.error = e]
    ELSE IF r.attempt = config.max_attempts
    THEN [r EXCEPT !.pc = "raised", !.last_exception = e, !.error = e, !.sleeps = @ + 1]
    ELSE [r EXCEPT !.pc = "sleep", !.last_exception = e, !.sleeps = @ + 1,
                   !.delay = CalculateDelay(r.attempt, config)]

\* func raised e on attempt r.attempt: a non-retryable error is re-raised, the
\* last attempt breaks out of the loop to "raise last_exception", any other
\* attempt sleeps calculate_delay(attempt, config)
RetryOnError(r, config, e) ==
    IF ~IsInstance(e.kind, config.exceptions)
    THEN [r EXCEPT !.pc = "raised", !.error = e]
    ELSE IF r.attempt = config.max_attempts
    THEN [r EXCEPT !.pc = "raised", !.last_exception = e, !.error = e]
    ELSE [r EXCEPT !.pc = "sleep", !.last_exception = e, !.sleeps = @ + 1,
                   !.delay = CalculateDelay(r.attempt, config)]

\* the sleep is over: next iteration of the loop
NextAttempt(r) == [r EXCEPT !.pc = "call", !.attempt = @ + 1, !.delay = 0, !.wake = NoDate]

\* delay *= 0.5 + random.random() * 0.5, in whole seconds
Jittered(delay) == {x \in 1..delay : 2 * x >= delay}

\* the records r may become at time t: asyncio.sleep(delay) ends delay later
Asleep(r, t) ==
    IF r.pc = "sleep" THEN {[r EXCEPT !.wake = t + x] : x \in Jittered(r.delay)} ELSE {r}

\* --------------------------------------------- circuit breaker (retry.py)
\* airflow_circuit_breaker
failure_threshold == 3
recovery_timeout == 30

Callers == 1..MaxCallers

ClosedCircuit == [state |-> "CLOSED", failure_count |-> 0, last_failure_time |-> NoDate]

\* CircuitBreaker._should_attempt_reset at time t
ShouldAttemptReset(cb, t) ==
    cb.last_failure_time # NoDate /\ t - cb.last_failure_time > recovery_timeout

\* mutation: a success closes the breaker and keeps the count
OnSuccessKeepsCount(cb) == [cb EXCEPT !.state = "CLOSED"]

\* CircuitBreaker._on_success
OnSuccess(cb) == [cb EXCEPT !.failure_count = 0, !.state = "CLOSED"]

\* mutation: the breaker trips one failure late
OnFailureTripsLate(cb, t) ==
    [cb EXCEPT !.failure_count = @ + 1,
               !.last_failure_time = t,
               !.state = IF cb.failure_count + 1 > failure_threshold THEN "OPEN" ELSE @]

\* CircuitBreaker._on_failure at time t
OnFailure(cb, t) ==
    [cb EXCEPT !.failure_count = @ + 1,
               !.last_failure_time = t,
               !.state = IF cb.failure_count + 1 >= failure_threshold THEN "OPEN" ELSE @]

\* ------------------------------------------------------------------- Init
IdleWatch == [pc |-> "idle", run |-> 0, attempt |-> 0, obs |-> NoExt, prev |-> "none"]
IdleCmd == [pc |-> "idle", run |-> 0]
IdleGet == [pc |-> "idle", run |-> 0, entity |-> NoRow, obs |-> NoExt]
IdleCm == [pc |-> "idle", run |-> 0, dag_index |-> 0, check |-> 0,
           entity |-> NoRow, obs |-> NoExt]
IdleCtl == [pc |-> "idle", run |-> 0, next |-> 0, iter |-> 0, obs |-> "none", new |-> 0,
            dag_index |-> 0]
NoConf == [dag_index |-> -1, dag_total |-> -1]
Creators == 1..MaxCreators
IdleCreator == [pc |-> "idle", dag |-> -1, result |-> "none"]

Init ==
    /\ now = 1
    /\ ext = [r \in RunIds |-> NoExt]
    /\ runs = [r \in RunIds |-> NoRow]
    /\ task = "pending"
    /\ watch = IdleWatch
    /\ stop = IdleCmd
    /\ retry = IdleCmd
    /\ get = IdleGet
    /\ cm = IdleCm
    /\ published = [e \in EventTypes |-> 0]
    /\ calls = 0
    /\ forced = {}
    /\ ctl = IdleCtl
    /\ stage = [r \in RunIds |-> -1]
    /\ conf = [r \in RunIds |-> NoConf]
    /\ circuit = ClosedCircuit
    /\ req = [c \in Callers |-> IdleRetry]
    /\ streak = 0
    /\ tripped_at = NoDate
    /\ retripped = FALSE
    /\ rt = IdleRetry
    /\ cfg = EXTERNAL_SERVICE_RETRY
    /\ cache = [r \in RunIds |-> "none"]
    /\ reply = "none"
    /\ run_id = [r \in RunIds |-> NoRunId]
    /\ watch2 = IdleWatch
    /\ wf_rows = [k \in 0..(ChainLen - 1) |-> 0]
    /\ goc = [c \in Creators |-> IdleCreator]

\* ------------------------------------------------------------ environment
Tick ==
    /\ now < MaxClock
    /\ now' = now + 1
    /\ UNCHANGED <<ctl, stage, conf, ext, runs, task, watch, stop, retry, get, cm, published, calls, forced>>
    /\ UNCHANGED resilience
    /\ UNCHANGED catalog
    /\ UNCHANGED <<cache, reply, run_id, watch2>>

\* the orchestrator starts a queued run
ExtStart(r) ==
    /\ ext[r].state = "queued"
    /\ ext' = [ext EXCEPT ![r] = [state |-> "running", start_date |-> now, end_date |-> NoDate]]
    /\ UNCHANGED <<ctl, stage, conf, now, runs, task, watch, stop, retry, get, cm, published, calls, forced>>
    /\ UNCHANGED resilience
    /\ UNCHANGED catalog
    /\ UNCHANGED <<cache, reply, run_id, watch2>>

\* the orchestrator finishes a running run
ExtFinish(r) ==
    /\ ext[r].state = "running"
    /\ \E s \in ExtFinalStates :
         ext' = [ext EXCEPT ![r] = [@ EXCEPT !.state = s, !.end_date = now]]
    /\ UNCHANGED <<ctl, stage, conf, now, runs, task, watch, stop, retry, get, cm, published, calls, forced>>
    /\ UNCHANGED resilience
    /\ UNCHANGED catalog
    /\ UNCHANGED <<cache, reply, run_id, watch2>>

\* a task of a running run fails and waits for its retry, or is started again
ExtUpForRetry(r) ==
    /\ ext[r].state \in {"running", "up_for_retry"}
    /\ ext' = [ext EXCEPT ![r] = [@ EXCEPT !.state = IF @ = "running" THEN "up_for_retry"
                                                       ELSE "running"]]
    /\ UNCHANGED <<ctl, stage, conf, now, runs, task, watch, stop, retry, get, cm, published, calls, forced>>
    /\ UNCHANGED resilience
    /\ UNCHANGED catalog
    /\ UNCHANGED <<cache, reply, run_id, watch2>>

\* state strings that are no key of the status dicts; "unknown" is what the
\* watch task reads when the response carries no state
UnknownStates == {"unknown", "deferred", "restarting", "SUCCESS"}

\* the state strings a dag-run response may carry
AirflowStates == WorkflowStatus \cup UnknownStates

\* the orchestrator's response for a run carries any state string
ExtReport(r) ==
    /\ ext[r].state # "none"
    /\ \E s \in AirflowStates : ext' = [ext EXCEPT ![r] = [@ EXCEPT !.state = s]]
    /\ UNCHANGED <<ctl, stage, conf, now, runs, task, watch, stop, retry, get, cm, published, calls, forced>>
    /\ UNCHANGED resilience
    /\ UNCHANGED catalog
    /\ UNCHANGED <<cache, reply, run_id, watch2>>

\* --------------------------------------------------- POST /{id}/runs
\* run_id = f"api_trigger_{datetime.now().strftime('%Y%m%d_%H%M%S')}": the
\* clock is read to the second
GenerateRunId(t) == <<"api_trigger", t>>

\* workflow_runs.id is the primary key: no stored row has this id
RowIdFree(id) == \A q \in RunIds : runs[q].status # "absent" => run_id[q] # id

\* the orchestrator has no run of DAG k under this dag_run_id
DagRunFree(k, id) ==
    \A q \in RunIds : ext[q].state # "none" => ~(stage[q] = k /\ run_id[q] = id)

\* r is the next run index
NextRun(r) == ext[r].state = "none" /\ \A q \in RunIds : q < r => ext[q].state # "none"

\* trigger_workflow followed by monitor_workflow_run.delay; the model follows
\* the watch task of one run
TriggerApi(r, k) ==
    /\ ext[r].state = "none"
    /\ \A q \in RunIds : q < r => ext[q].state # "none"
    /\ watch.pc = "idle"
    /\ DagRunFree(k, GenerateRunId(now))
    /\ RowIdFree(GenerateRunId(now))
    /\ ext' = [ext EXCEPT ![r] = QueuedExt]
    /\ runs' = [runs EXCEPT ![r] = QueuedRow]
    /\ stage' = [stage EXCEPT ![r] = k]
    /\ Publish("workflow_triggered")
    /\ watch' = [IdleWatch EXCEPT !.pc = "poll", !.run = r]
    /\ UNCHANGED <<now, task, stop, retry, get, cm, calls, forced, ctl, conf>>
    /\ UNCHANGED resilience
    /\ UNCHANGED catalog
    /\ run_id' = [run_id EXCEPT ![r] = GenerateRunId(now)]
    /\ reply' = "none"
    /\ UNCHANGED <<cache, watch2>>

\* what the command of a trigger request may refer to
CommandRefs == {"Workflow", "Task", "Dataset"}

\* mutation: the lookups come after the trigger call and the commit
TriggerNotFoundLate(r, k, missing) ==
    /\ NextRun(r)
    /\ DagRunFree(k, GenerateRunId(now))
    /\ RowIdFree(GenerateRunId(now))
    /\ ext' = [ext EXCEPT ![r] = QueuedExt]
    /\ runs' = [runs EXCEPT ![r] = QueuedRow]
    /\ stage' = [stage EXCEPT ![r] = k]
    /\ run_id' = [run_id EXCEPT ![r] = GenerateRunId(now)]
    /\ reply' = "EntityNotFound"
    /\ UNCHANGED <<now, task, watch, stop, retry, get, cm, published, calls, forced, ctl, conf>>
    /\ UNCHANGED resilience
    /\ UNCHANGED catalog
    /\ UNCHANGED <<cache, watch2>>

\* trigger_workflow for DAG k when the workflow, the task or the dataset of the
\* command does not exist: EntityNotFound out of the first transaction
TriggerNotFound(r, k, missing) ==
    /\ NextRun(r)
    /\ reply' = "EntityNotFound"
    /\ UNCHANGED <<now, ext, runs, task, watch, stop, retry, get, cm, published, calls, forced,
                   ctl, stage, conf>>
    /\ UNCHANGED resilience
    /\ UNCHANGED catalog
    /\ UNCHANGED <<cache, run_id, watch2>>

\* trigger_dag raises (the orchestrator is down, or refuses a dag_run_id its DAG
\* already has): ExternalServiceError, nothing was started
TriggerDagError(r, k) ==
    /\ NextRun(r)
    /\ reply' = Wrapped("ExternalServiceError")
    /\ UNCHANGED <<now, ext, runs, task, watch, stop, retry, get, cm, published, calls, forced,
                   ctl, stage, conf>>
    /\ UNCHANGED resilience
    /\ UNCHANGED catalog
    /\ UNCHANGED <<cache, run_id, watch2>>

\* trigger_dag answers, creating the row raises (the database is down, or a row
\* of that id exists): ExternalServiceError, the endpoint schedules no watch
TriggerRowError(r, k) ==
    /\ NextRun(r)
    /\ DagRunFree(k, GenerateRunId(now))
    /\ ext' = [ext EXCEPT ![r] = QueuedExt]
    /\ stage' = [stage EXCEPT ![r] = k]
    /\ run_id' = [run_id EXCEPT ![r] = GenerateRunId(now)]
    /\ reply' = Wrapped("IntegrityError")
    /\ UNCHANGED <<now, runs, task, watch, stop, retry, get, cm, published, calls, forced,
                   ctl, conf>>
    /\ UNCHANGED resilience
    /\ UNCHANGED catalog
    /\ UNCHANGED <<cache, watch2>>

\* trigger_dag answers, the row is committed, publishing "triggered" raises:
\* ExternalServiceError, the endpoint schedules no watch
TriggerPublishError(r, k) ==
    /\ NextRun(r)
    /\ DagRunFree(k, GenerateRunId(now))
    /\ RowIdFree(GenerateRunId(now))
    /\ ext' = [ext EXCEPT ![r] = QueuedExt]
    /\ runs' = [runs EXCEPT ![r] = QueuedRow]
    /\ stage' = [stage EXCEPT ![r] = k]
    /\ run_id' = [run_id EXCEPT ![r] = GenerateRunId(now)]
    /\ reply' = Wrapped("RedisError")
    /\ UNCHANGED <<now, task, watch, stop, retry, get, cm, published, calls, forced, ctl, conf>>
    /\ UNCHANGED resilience
    /\ UNCHANGED catalog
    /\ UNCHANGED <<cache, watch2>>

\* ------------------------------------------------------------ watch task
\* get_dag_run_status returns the orchestrator's current view of the run
WatchPoll ==
    /\ watch.pc = "poll"
    /\ watch.attempt < MaxAttempts
    /\ watch' = [watch EXCEPT !.obs = ext[watch.run], !.pc = "update"]
    /\ UNCHANGED <<ctl, stage, conf, now, ext, runs, task, stop, retry, get, cm, published, calls, forced>>
    /\ UNCHANGED resilience
    /\ UNCHANGED catalog
    /\ UNCHANGED <<cache, reply, run_id, watch2>>

\* mutation: an error of the poll ends the watch
WatchPollErrorAborts ==
    /\ watch.pc = "poll"
    /\ watch.attempt < MaxAttempts
    /\ watch' = [watch EXCEPT !.pc = "done"]
    /\ UNCHANGED <<ctl, stage, conf, now, ext, runs, task, stop, retry, get, cm, published, calls, forced>>
    /\ UNCHANGED resilience
    /\ UNCHANGED catalog
    /\ UNCHANGED <<cache, reply, run_id, watch2>>

\* get_dag_run_status raises: sleep 60, attempt += 1
WatchPollError ==
    /\ watch.pc = "poll"
    /\ watch.attempt < MaxAttempts
    /\ watch' = [watch EXCEPT !.attempt = @ + 1]
    /\ UNCHANGED <<ctl, stage, conf, now, ext, runs, task, stop, retry, get, cm, published, calls, forced>>
    /\ UNCHANGED resilience
    /\ UNCHANGED catalog
    /\ UNCHANGED <<cache, reply, run_id, watch2>>

\* _update_workflow_run_status: one transaction, errors are logged and swallowed
WatchUpdate ==
    /\ watch.pc = "update"
    /\ \E ok \in BOOLEAN :
         runs' = IF ok /\ runs[watch.run].status # "absent"
                 THEN [runs EXCEPT ![watch.run] = ApplyDagRunData(@, watch.obs, now)]
                 ELSE runs
    /\ watch' = [watch EXCEPT !.pc = "publish"]
    /\ UNCHANGED <<ctl, stage, conf, now, ext, task, stop, retry, get, cm, published, calls, forced>>
    /\ UNCHANGED resilience
    /\ UNCHANGED catalog
    /\ UNCHANGED <<cache, reply, run_id, watch2>>

\* the event published for an observed state, "" when none is
WatchEvent(airflow_state) ==
    CASE airflow_state = "running" -> "workflow_started"
      [] airflow_state = "success" -> "workflow_completed"
      [] airflow_state = "failed" -> "workflow_failed"
      [] OTHER -> ""

\* the poll loop ends: break on success / failed, or on a terminal mapped status
WatchBreaks(airflow_state) ==
    \/ airflow_state \in {"success", "failed"}
    \/ MapAirflowStatus(airflow_state) \in {"success", "failed", "removed"}

\* cache_workflow_status: the cache entry of run r holds the mapped status
CacheWorkflowStatus(r, airflow_state) ==
    [cache EXCEPT ![r] = MapAirflowStatus(airflow_state)]

\* the state of a watch task after the loop body for observation w.obs: break
\* out of the loop, or sleep 30, attempt += 1 and poll again
WatchNext(w) ==
    IF WatchBreaks(w.obs.state)
    THEN [w EXCEPT !.pc = "done", !.obs = NoExt, !.prev = w.obs.state]
    ELSE [w EXCEPT !.pc = "poll", !.attempt = @ + 1, !.obs = NoExt, !.prev = w.obs.state]

\* mutation: an iteration that ends in an error is not counted
WatchAfterErrorNotCounted(w) ==
    [w EXCEPT !.pc = "poll", !.obs = NoExt, !.prev = w.obs.state]

\* "except Exception" inside the loop: sleep 60, attempt += 1, poll again
WatchAfterError(w) ==
    [w EXCEPT !.pc = "poll", !.attempt = @ + 1, !.obs = NoExt, !.prev = w.obs.state]

\* cache the status, publish the event, then break or sleep 30 and poll again
WatchPublish ==
    /\ watch.pc = "publish"
    /\ cache' = CacheWorkflowStatus(watch.run, watch.obs.state)
    /\ IF WatchEvent(watch.obs.state) # ""
       THEN Publish(WatchEvent(watch.obs.state))
       ELSE UNCHANGED published
    /\ watch' = WatchNext(watch)
    /\ UNCHANGED <<ctl, stage, conf, now, ext, runs, task, stop, retry, get, cm, calls, forced>>
    /\ UNCHANGED resilience
    /\ UNCHANGED catalog
    /\ UNCHANGED <<reply, run_id, watch2>>

\* the status is cached, publishing raises: sleep 60, attempt += 1, poll again
WatchPublishError ==
    /\ watch.pc = "publish"
    /\ cache' = CacheWorkflowStatus(watch.run, watch.obs.state)
    /\ watch' = WatchAfterError(watch)
    /\ UNCHANGED <<ctl, stage, conf, now, ext, runs, task, stop, retry, get, cm, published, calls, forced>>
    /\ UNCHANGED resilience
    /\ UNCHANGED catalog
    /\ UNCHANGED <<reply, run_id, watch2>>

\* cache_workflow_status raises: nothing is cached or published, sleep 60,
\* attempt += 1, poll again
WatchCacheError ==
    /\ watch.pc = "publish"
    /\ watch' = WatchAfterError(watch)
    /\ UNCHANGED <<ctl, stage, conf, now, ext, runs, task, stop, retry, get, cm, published, calls, forced>>
    /\ UNCHANGED resilience
    /\ UNCHANGED catalog
    /\ UNCHANGED <<cache, reply, run_id, watch2>>

\* mutation: running out of attempts marks the run FAILED
WatchTimeoutMarksFailed ==
    /\ watch.pc = "poll"
    /\ watch.attempt >= MaxAttempts
    /\ watch' = [watch EXCEPT !.pc = "timeout"]
    /\ runs' = [runs EXCEPT ![watch.run] = UpdateStatus(@, "failed", now)]
    /\ UNCHANGED <<ctl, stage, conf, now, ext, task, stop, retry, get, cm, published, calls, forced>>
    /\ UNCHANGED resilience
    /\ UNCHANGED catalog
    /\ UNCHANGED <<cache, reply, run_id, watch2>>

\* the while loop runs out of attempts
WatchTimeout ==
    /\ watch.pc = "poll"
    /\ watch.attempt >= MaxAttempts
    /\ watch' = [watch EXCEPT !.pc = "timeout"]
    /\ UNCHANGED <<ctl, stage, conf, now, ext, runs, task, stop, retry, get, cm, published, calls, forced>>
    /\ UNCHANGED resilience
    /\ UNCHANGED catalog
    /\ UNCHANGED <<cache, reply, run_id, watch2>>

\* ------------------------------------------- monitor_active_workflows
\* the statuses whose runs the periodic sweep hands to monitor_workflow_run
ActiveStatuses == {"queued", "running", "up_for_retry", "up_for_reschedule", "scheduled"}

\* one tick of the beat schedule: monitor_workflow_run.delay for every stored
\* run in an active status; the model follows one of the watch tasks it starts
MonitorActiveWorkflows(r) ==
    /\ watch2.pc = "idle"
    /\ runs[r].status \in ActiveStatuses
    /\ watch2' = [IdleWatch EXCEPT !.pc = "poll", !.run = r]
    /\ UNCHANGED <<ctl, stage, conf, now, ext, runs, task, watch, stop, retry, get, cm, published, calls, forced>>
    /\ UNCHANGED resilience
    /\ UNCHANGED catalog
    /\ UNCHANGED <<cache, reply, run_id>>

\* that watch task: get_dag_run_status answers
Watch2Poll ==
    /\ watch2.pc = "poll"
    /\ watch2.attempt < MaxAttempts
    /\ watch2' = [watch2 EXCEPT !.obs = ext[watch2.run], !.pc = "update"]
    /\ UNCHANGED <<ctl, stage, conf, now, ext, runs, task, watch, stop, retry, get, cm, published, calls, forced>>
    /\ UNCHANGED resilience
    /\ UNCHANGED catalog
    /\ UNCHANGED <<cache, reply, run_id>>

\* get_dag_run_status raises: sleep 60, attempt += 1
Watch2PollError ==
    /\ watch2.pc = "poll"
    /\ watch2.attempt < MaxAttempts
    /\ watch2' = [watch2 EXCEPT !.attempt = @ + 1]
    /\ UNCHANGED <<ctl, stage, conf, now, ext, runs, task, watch, stop, retry, get, cm, published, calls, forced>>
    /\ UNCHANGED resilience
    /\ UNCHANGED catalog
    /\ UNCHANGED <<cache, reply, run_id>>

\* _update_workflow_run_status
Watch2Update ==
    /\ watch2.pc = "update"
    /\ \E ok \in BOOLEAN :
         runs' = IF ok /\ runs[watch2.run].status # "absent"
                 THEN [runs EXCEPT ![watch2.run] = ApplyDagRunData(@, watch2.obs, now)]
                 ELSE runs
    /\ watch2' = [watch2 EXCEPT !.pc = "publish"]
    /\ UNCHANGED <<ctl, stage, conf, now, ext, task, watch, stop, retry, get, cm, published, calls, forced>>
    /\ UNCHANGED resilience
    /\ UNCHANGED catalog
    /\ UNCHANGED <<cache, reply, run_id>>

\* cache the status, publish the event, then break or sleep 30 and poll again
Watch2Publish ==
    /\ watch2.pc = "publish"
    /\ cache' = CacheWorkflowStatus(watch2.run, watch2.obs.state)
    /\ IF WatchEvent(watch2.obs.state) # ""
       THEN Publish(WatchEvent(watch2.obs.state))
       ELSE UNCHANGED published
    /\ watch2' = WatchNext(watch2)
    /\ UNCHANGED <<ctl, stage, conf, now, ext, runs, task, watch, stop, retry, get, cm, calls, forced>>
    /\ UNCHANGED resilience
    /\ UNCHANGED catalog
    /\ UNCHANGED <<reply, run_id>>

\* the status is cached, publishing raises
Watch2PublishError ==
    /\ watch2.pc = "publish"
    /\ cache' = CacheWorkflowStatus(watch2.run, watch2.obs.state)
    /\ watch2' = WatchAfterError(watch2)
    /\ UNCHANGED <<ctl, stage, conf, now, ext, runs, task, watch, stop, retry, get, cm, published, calls, forced>>
    /\ UNCHANGED resilience
    /\ UNCHANGED catalog
    /\ UNCHANGED <<reply, run_id>>

\* cache_workflow_status raises
Watch2CacheError ==
    /\ watch2.pc = "publish"
    /\ watch2' = WatchAfterError(watch2)
    /\ UNCHANGED <<ctl, stage, conf, now, ext, runs, task, watch, stop, retry, get, cm, published, calls, forced>>
    /\ UNCHANGED resilience
    /\ UNCHANGED catalog
    /\ UNCHANGED <<cache, reply, run_id>>

\* the while loop runs out of attempts
Watch2Timeout ==
    /\ watch2.pc = "poll"
    /\ watch2.attempt >= MaxAttempts
    /\ watch2' = [watch2 EXCEPT !.pc = "timeout"]
    /\ UNCHANGED <<ctl, stage, conf, now, ext, runs, task, watch, stop, retry, get, cm, published, calls, forced>>
    /\ UNCHANGED resilience
    /\ UNCHANGED catalog
    /\ UNCHANGED <<cache, reply, run_id>>

\* ------------------------------------------------------------- StopRun
\* patch_dag_run(state="failed") succeeds: the orchestrator marks the run failed
StopPatch(r) ==
    /\ stop.pc = "idle"
    /\ calls < MaxCalls
    /\ ext[r].state # "none"
    /\ ext' = [ext EXCEPT ![r] = [@ EXCEPT !.state = "failed", !.end_date = now]]
    /\ stop' = [pc |-> "patched", run |-> r]
    /\ calls' = calls + 1
    /\ UNCHANGED <<ctl, stage, conf, now, runs, task, watch, retry, get, cm, published, forced>>
    /\ UNCHANGED resilience
    /\ UNCHANGED catalog
    /\ UNCHANGED <<cache, reply, run_id, watch2>>

\* patch_dag_run raises: stop_workflow_run re-raises it as ExternalServiceError
StopPatchError(r) ==
    /\ stop.pc = "idle"
    /\ calls < MaxCalls
    /\ ext[r].state # "none"
    /\ stop' = IdleCmd
    /\ calls' = calls + 1
    /\ UNCHANGED <<ctl, stage, conf, now, ext, runs, task, watch, retry, get, cm, published, forced>>
    /\ UNCHANGED resilience
    /\ UNCHANGED catalog
    /\ reply' = "ExternalServiceError"
    /\ UNCHANGED <<cache, run_id, watch2>>

\* mutation: the unit of work undoes the committed update when publishing raises
StopCommitRollsBack(r) ==
    /\ stop.pc = "patched"
    /\ stop.run = r
    /\ IF runs[r].status # "absent"
       THEN \E pub \in BOOLEAN :
              IF pub
              THEN /\ runs' = [runs EXCEPT ![r] = UpdateStatus(@, "failed", now)]
                   /\ forced' = forced \cup {r}
                   /\ Publish("workflow_stopped")
                   /\ reply' = "none"
              ELSE /\ UNCHANGED <<runs, forced, published>>
                   /\ reply' = Wrapped("RedisError")
       ELSE /\ UNCHANGED <<runs, forced, published>>
            /\ reply' = Wrapped("EntityNotFound")
    /\ stop' = IdleCmd
    /\ UNCHANGED <<ctl, stage, conf, now, ext, task, watch, retry, get, cm, calls>>
    /\ UNCHANGED resilience
    /\ UNCHANGED catalog
    /\ UNCHANGED <<cache, run_id, watch2>>

\* load the row, update_status(FAILED), update, commit, publish "stopped"; with
\* no row EntityNotFound is raised; whatever is raised is re-raised wrapped
StopCommit(r) ==
    /\ stop.pc = "patched"
    /\ stop.run = r
    /\ IF runs[r].status # "absent"
       THEN /\ runs' = [runs EXCEPT ![r] = UpdateStatus(@, "failed", now)]
            /\ forced' = forced \cup {r}
            /\ \E pub \in BOOLEAN :
                 IF pub THEN Publish("workflow_stopped") /\ reply' = "none"
                        ELSE UNCHANGED published /\ reply' = Wrapped("RedisError")
       ELSE /\ UNCHANGED <<runs, forced, published>>
            /\ reply' = Wrapped("EntityNotFound")
    /\ stop' = IdleCmd
    /\ UNCHANGED <<ctl, stage, conf, now, ext, task, watch, retry, get, cm, calls>>
    /\ UNCHANGED resilience
    /\ UNCHANGED catalog
    /\ UNCHANGED <<cache, run_id, watch2>>

\* ------------------------------------------------------------ RetryRun
\* clear_dag_run succeeds: the orchestrator resets the run to queued
RetryClear(r) ==
    /\ retry.pc = "idle"
    /\ calls < MaxCalls
    /\ ext[r].state # "none"
    /\ ext' = [ext EXCEPT ![r] = QueuedExt]
    /\ retry' = [pc |-> "cleared", run |-> r]
    /\ calls' = calls + 1
    /\ UNCHANGED <<ctl, stage, conf, now, runs, task, watch, stop, get, cm, published, forced>>
    /\ UNCHANGED resilience
    /\ UNCHANGED catalog
    /\ UNCHANGED <<cache, reply, run_id, watch2>>

\* clear_dag_run raises
RetryClearError(r) ==
    /\ retry.pc = "idle"
    /\ calls < MaxCalls
    /\ ext[r].state # "none"
    /\ retry' = IdleCmd
    /\ calls' = calls + 1
    /\ UNCHANGED <<ctl, stage, conf, now, ext, runs, task, watch, stop, get, cm, published, forced>>
    /\ UNCHANGED resilience
    /\ UNCHANGED catalog
    /\ reply' = "ExternalServiceError"
    /\ UNCHANGED <<cache, run_id, watch2>>

\* load the row, update_status(QUEUED), clear both dates, commit, publish "retried";
\* with no row EntityNotFound is raised; whatever is raised is re-raised wrapped
RetryCommit(r) ==
    /\ retry.pc = "cleared"
    /\ retry.run = r
    /\ IF runs[r].status # "absent"
       THEN /\ runs' = [runs EXCEPT ![r] =
                          [UpdateStatus(@, "queued", now) EXCEPT !.start_date = NoDate,
                                                                 !.end_date = NoDate]]
            /\ forced' = forced \ {r}
            /\ \E pub \in BOOLEAN :
                 IF pub THEN Publish("workflow_retried") /\ reply' = "none"
                        ELSE UNCHANGED published /\ reply' = Wrapped("RedisError")
       ELSE /\ UNCHANGED <<runs, forced, published>>
            /\ reply' = Wrapped("EntityNotFound")
    /\ retry' = IdleCmd
    /\ UNCHANGED <<ctl, stage, conf, now, ext, task, watch, stop, get, cm, calls>>
    /\ UNCHANGED resilience
    /\ UNCHANGED catalog
    /\ UNCHANGED <<cache, run_id, watch2>>

\* -------------------------------------------------------- GetRunStatus
\* first transaction: load the run (and its workflow)
GetLoad(r) ==
    /\ get.pc = "idle"
    /\ calls < MaxCalls
    /\ runs[r].status # "absent"
    /\ get' = [pc |-> "query", run |-> r, entity |-> runs[r], obs |-> NoExt]
    /\ calls' = calls + 1
    /\ UNCHANGED <<ctl, stage, conf, now, ext, runs, task, watch, stop, retry, cm, published, forced>>
    /\ UNCHANGED resilience
    /\ UNCHANGED catalog
    /\ UNCHANGED <<cache, reply, run_id, watch2>>

\* get_dag_run_status answers
GetQuery ==
    /\ get.pc = "query"
    /\ get' = [get EXCEPT !.pc = "write", !.obs = ext[get.run]]
    /\ UNCHANGED <<ctl, stage, conf, now, ext, runs, task, watch, stop, retry, cm, published, calls, forced>>
    /\ UNCHANGED resilience
    /\ UNCHANGED catalog
    /\ UNCHANGED <<cache, reply, run_id, watch2>>

\* get_dag_run_status raises: ExternalServiceError
GetQueryError ==
    /\ get.pc = "query"
    /\ get' = IdleGet
    /\ UNCHANGED <<ctl, stage, conf, now, ext, runs, task, watch, stop, retry, cm, published, calls, forced>>
    /\ UNCHANGED resilience
    /\ UNCHANGED catalog
    /\ reply' = "ExternalServiceError"
    /\ UNCHANGED <<cache, run_id, watch2>>

\* "Update local status if different": the loaded entity is changed and written back
GetWrite ==
    /\ get.pc = "write"
    /\ runs' = IF get.entity.status # UseCaseMapAirflowStatus(get.obs.state)
               THEN [runs EXCEPT ![get.run] =
                       CopyDates(UpdateStatus(get.entity,
                                              UseCaseMapAirflowStatus(get.obs.state), now),
                                 get.obs)]
               ELSE runs
    /\ get' = IdleGet
    /\ UNCHANGED <<ctl, stage, conf, now, ext, task, watch, stop, retry, cm, published, calls, forced>>
    /\ UNCHANGED resilience
    /\ UNCHANGED catalog
    /\ reply' = "none"
    /\ UNCHANGED <<cache, run_id, watch2>>

\* ------------------------------------------------ get_or_create_workflow
\* get_by_dag_id: select ... where dag_id = :dag_id, scalar_one_or_none().  No
\* row: the caller goes on to create one; one row: it is returned; several
\* rows: MultipleResultsFound
GetByDagId(c, k) ==
    /\ goc[c].pc = "idle"
    /\ goc' = [goc EXCEPT ![c] =
                 CASE wf_rows[k] = 0 -> [pc |-> "create", dag |-> k, result |-> "none"]
                   [] wf_rows[k] = 1 -> [pc |-> "idle", dag |-> k, result |-> "existing"]
                   [] OTHER -> [pc |-> "idle", dag |-> k, result |-> "MultipleResultsFound"]]
    /\ UNCHANGED <<now, ext, runs, task, watch, stop, retry, get, cm, published, calls, forced,
                   ctl, stage, conf, cache, reply, run_id, watch2, wf_rows>>
    /\ UNCHANGED resilience

\* create_workflow: a row with a new id is added and committed
CreateWorkflow(c) ==
    /\ goc[c].pc = "create"
    /\ wf_rows' = [wf_rows EXCEPT ![goc[c].dag] = @ + 1]
    /\ goc' = [goc EXCEPT ![c] = [@ EXCEPT !.pc = "idle", !.result = "created"]]
    /\ UNCHANGED <<now, ext, runs, task, watch, stop, retry, get, cm, published, calls, forced,
                   ctl, stage, conf, cache, reply, run_id, watch2>>
    /\ UNCHANGED resilience

\* ------------------------------------------------------- chain monitor
\* start_dag_chain_monitoring schedules monitor_dag_chain_completion
StartDagChainMonitoring(r, dag_index) ==
    /\ cm.pc = "idle"
    /\ runs[r].status # "absent"
    /\ cm' = [IdleCm EXCEPT !.pc = "load", !.run = r, !.dag_index = dag_index]
    /\ UNCHANGED <<ctl, stage, conf, now, ext, runs, task, watch, stop, retry, get, published, calls, forced>>
    /\ UNCHANGED resilience
    /\ UNCHANGED catalog
    /\ UNCHANGED <<cache, reply, run_id, watch2>>

\* top of the loop: "Get current WorkflowRun from database"
CmLoad ==
    /\ cm.pc = "load"
    /\ cm.check < MaxChecks
    /\ cm' = IF runs[cm.run].status = "absent"
             THEN [cm EXCEPT !.pc = "done"]
             ELSE [cm EXCEPT !.pc = "query", !.entity = runs[cm.run]]
    /\ UNCHANGED <<ctl, stage, conf, now, ext, runs, task, watch, stop, retry, get, published, calls, forced>>
    /\ UNCHANGED resilience
    /\ UNCHANGED catalog
    /\ UNCHANGED <<cache, reply, run_id, watch2>>

\* get_dag_run_status answers
CmQuery ==
    /\ cm.pc = "query"
    /\ cm' = [cm EXCEPT !.pc = "apply", !.obs = ext[cm.run]]
    /\ UNCHANGED <<ctl, stage, conf, now, ext, runs, task, watch, stop, retry, get, published, calls, forced>>
    /\ UNCHANGED resilience
    /\ UNCHANGED catalog
    /\ UNCHANGED <<cache, reply, run_id, watch2>>

\* an exception inside the loop body: log, sleep, next check
CmNextCheck == [cm EXCEPT !.pc = "load", !.check = @ + 1, !.obs = NoExt, !.entity = NoRow]

\* get_dag_run_status raises
CmQueryError ==
    /\ cm.pc = "query"
    /\ cm' = CmNextCheck
    /\ UNCHANGED <<ctl, stage, conf, now, ext, runs, task, watch, stop, retry, get, published, calls, forced>>
    /\ UNCHANGED resilience
    /\ UNCHANGED catalog
    /\ UNCHANGED <<cache, reply, run_id, watch2>>

\* the row the monitor writes on success: SUCCESS, end_date from the response
CmSuccessRow(entity, data, t) ==
    [UpdateStatus(entity, "success", t) EXCEPT
        !.end_date = IF data.end_date # NoDate THEN data.end_date ELSE @]

\* airflow_state == "success": update the WorkflowRun, commit
CmSuccess ==
    /\ cm.pc = "apply"
    /\ cm.obs.state = "success"
    /\ runs' = [runs EXCEPT ![cm.run] = CmSuccessRow(cm.entity, cm.obs, now)]
    /\ cm' = [cm EXCEPT !.pc = "advance", !.entity = CmSuccessRow(cm.entity, cm.obs, now)]
    /\ UNCHANGED <<ctl, stage, conf, now, ext, task, watch, stop, retry, get, published, calls, forced>>
    /\ UNCHANGED resilience
    /\ UNCHANGED catalog
    /\ UNCHANGED <<cache, reply, run_id, watch2>>

\* last DAG of the chain succeeded: update_task_status(COMPLETED), return;
\* when that raises the loop logs it and goes on
CmComplete ==
    /\ cm.pc = "advance"
    /\ ~(cm.dag_index + 1 < ChainLen)
    /\ \E ok \in BOOLEAN :
         IF ok THEN task' = "completed" /\ cm' = [cm EXCEPT !.pc = "done"]
               ELSE task' = task /\ cm' = CmNextCheck
    /\ UNCHANGED <<ctl, stage, conf, now, ext, runs, watch, stop, retry, get, published, calls, forced>>
    /\ UNCHANGED resilience
    /\ UNCHANGED catalog
    /\ UNCHANGED <<cache, reply, run_id, watch2>>

\* airflow_state == "failed": WorkflowRun FAILED, then task FAILED, return
CmFailed ==
    /\ cm.pc = "apply"
    /\ cm.obs.state = "failed"
    /\ runs' = [runs EXCEPT ![cm.run] = UpdateStatus(cm.entity, "failed", now)]
    /\ task' = "failed"
    /\ cm' = [cm EXCEPT !.pc = "done"]
    /\ UNCHANGED <<ctl, stage, conf, now, ext, watch, stop, retry, get, published, calls, forced>>
    /\ UNCHANGED resilience
    /\ UNCHANGED catalog
    /\ UNCHANGED <<cache, reply, run_id, watch2>>

\* the same, update_task_status raises: the loop logs it and goes on
CmFailedError ==
    /\ cm.pc = "apply"
    /\ cm.obs.state = "failed"
    /\ runs' = [runs EXCEPT ![cm.run] = UpdateStatus(cm.entity, "failed", now)]
    /\ cm' = CmNextCheck
    /\ UNCHANGED <<ctl, stage, conf, now, ext, task, watch, stop, retry, get, published, calls, forced>>
    /\ UNCHANGED resilience
    /\ UNCHANGED catalog
    /\ UNCHANGED <<cache, reply, run_id, watch2>>

\* the row the monitor writes while the run is running or queued
CmTransientRow(entity, data) ==
    [UpdateStatus(entity, data.state, NoDate) EXCEPT
        !.start_date = IF data.state = "running" /\ data.start_date # NoDate
                       THEN data.start_date ELSE @]

\* airflow_state in ["running", "queued"]: write only when the status differs
CmTransient ==
    /\ cm.pc = "apply"
    /\ cm.obs.state \in {"running", "queued"}
    /\ runs' = IF cm.entity.status # cm.obs.state
               THEN [runs EXCEPT ![cm.run] = CmTransientRow(cm.entity, cm.obs)]
               ELSE runs
    /\ cm' = CmNextCheck
    /\ UNCHANGED <<ctl, stage, conf, now, ext, task, watch, stop, retry, get, published, calls, forced>>
    /\ UNCHANGED resilience
    /\ UNCHANGED catalog
    /\ UNCHANGED <<cache, reply, run_id, watch2>>

\* any other state: nothing is written, sleep, next check
CmOther ==
    /\ cm.pc = "apply"
    /\ cm.obs.state \notin {"success", "failed", "running", "queued"}
    /\ cm' = CmNextCheck
    /\ UNCHANGED <<ctl, stage, conf, now, ext, runs, task, watch, stop, retry, get, published, calls, forced>>
    /\ UNCHANGED resilience
    /\ UNCHANGED catalog
    /\ UNCHANGED <<cache, reply, run_id, watch2>>

\* "Timeout reached"
CmTimeout ==
    /\ cm.pc = "load"
    /\ cm.check >= MaxChecks
    /\ cm' = [cm EXCEPT !.pc = "timeout"]
    /\ UNCHANGED <<ctl, stage, conf, now, ext, runs, task, watch, stop, retry, get, published, calls, forced>>
    /\ UNCHANGED resilience
    /\ UNCHANGED catalog
    /\ UNCHANGED <<cache, reply, run_id, watch2>>

\* ------------------------------------------------------ TriggerRun
\* the run id the next trigger_workflow uses
FreshRun == CHOOSE r \in RunIds : ext[r].state = "none" /\ \A q \in RunIds : q < r => ext[q].state # "none"

TriggerOutcomes == {"ok", "ext_only", "fail"}

\* trigger_workflow for DAG k with bookkeeping c.  "ok": trigger_dag answered and
\* the row was committed; "ext_only": trigger_dag answered, creating the row
\* raised; "fail": nothing was started.  Everything but "ok" raises.
TriggerWorkflow(r, k, c, out) ==
    /\ ext' = IF out # "fail" THEN [ext EXCEPT ![r] = QueuedExt] ELSE ext
    /\ stage' = IF out # "fail" THEN [stage EXCEPT ![r] = k] ELSE stage
    /\ conf' = IF out # "fail" THEN [conf EXCEPT ![r] = c] ELSE conf
    /\ runs' = IF out = "ok" THEN [runs EXCEPT ![r] = QueuedRow] ELSE runs
    /\ run_id' = IF out # "fail" THEN [run_id EXCEPT ![r] = GenerateRunId(now)] ELSE run_id

\* --------------------------------------- POST /tasks/{task_id}/execute
\* task RUNNING, trigger the first DAG, schedule trigger_next_dag_after_completion;
\* a failed schedule is only logged, a failed trigger reverts the task to FAILED
ExecuteTask ==
    /\ task = "pending"
    /\ ctl.pc = "idle"
    /\ cm.pc = "idle"
    /\ \A r \in RunIds : ext[r].state = "none"
    /\ \E out \in TriggerOutcomes, sched \in BOOLEAN :
         /\ TriggerWorkflow(FreshRun, 0, [dag_index |-> 0, dag_total |-> ChainLen], out)
         /\ task' = IF out = "ok" THEN "running" ELSE "failed"
         /\ ctl' = IF out = "ok" /\ sched /\ ChainLen > 1
                   THEN [IdleCtl EXCEPT !.pc = "poll", !.run = FreshRun, !.next = 1,
                                        !.dag_index = 1]
                   ELSE ctl
         /\ IF out = "ok" THEN Publish("workflow_triggered") ELSE UNCHANGED published
    /\ UNCHANGED <<now, watch, stop, retry, get, cm, calls, forced>>
    /\ UNCHANGED resilience
    /\ UNCHANGED catalog
    /\ UNCHANGED <<cache, reply, watch2>>

\* ------------------------------------ trigger_next_dag_after_completion
\* get_dag_run_status answers
ImplPoll ==
    /\ ctl.pc = "poll"
    /\ ctl.iter < MaxIters
    /\ ctl' = [ctl EXCEPT !.pc = "act", !.obs = ext[ctl.run].state]
    /\ UNCHANGED <<now, ext, runs, task, watch, stop, retry, get, cm, published, calls,
                   forced, stage, conf>>
    /\ UNCHANGED resilience
    /\ UNCHANGED catalog
    /\ UNCHANGED <<cache, reply, run_id, watch2>>

\* "except Exception" inside the loop: log, sleep(check_interval), next iteration
ImplNextIter == [ctl EXCEPT !.pc = "poll", !.iter = @ + 1, !.new = 0]

\* get_dag_run_status raises
ImplPollError ==
    /\ ctl.pc = "poll"
    /\ ctl.iter < MaxIters
    /\ ctl' = ImplNextIter
    /\ UNCHANGED <<now, ext, runs, task, watch, stop, retry, get, cm, published, calls,
                   forced, stage, conf>>
    /\ UNCHANGED resilience
    /\ UNCHANGED catalog
    /\ UNCHANGED <<cache, reply, run_id, watch2>>

\* mutation: any finished run counts as a success
ImplSucceededAnyFinal(state) == state \in {"success", "failed"}

\* the state on which the controller triggers the next DAG
ImplSucceeded(state) == state = "success"

\* the states on which the controller stops the chain
ImplFailedStates == {"failed", "up_for_retry", "upstream_failed"}

\* state == "success": get_or_create_workflow and trigger_workflow for next_dag_id
ImplTrigger ==
    /\ ctl.pc = "act"
    /\ ImplSucceeded(ctl.obs)
    /\ \E r \in RunIds : ext[r].state = "none"
    /\ \E out \in TriggerOutcomes :
         /\ TriggerWorkflow(FreshRun, ctl.next,
                            [dag_index |-> ctl.dag_index, dag_total |-> ChainLen], out)
         /\ ctl' = IF out = "ok" THEN [ctl EXCEPT !.pc = "schedule", !.new = FreshRun]
                                 ELSE ImplNextIter
    /\ UNCHANGED <<now, task, watch, stop, retry, get, cm, published, calls, forced>>
    /\ UNCHANGED resilience
    /\ UNCHANGED catalog
    /\ UNCHANGED <<cache, reply, watch2>>

\* another DAG follows the one just triggered: schedule its monitoring task and
\* return; when .delay raises the loop goes on with the same run
ImplScheduleNext ==
    /\ ctl.pc = "schedule"
    /\ ctl.next + 1 < ChainLen
    /\ \E ok \in BOOLEAN :
         ctl' = IF ok THEN [ctl EXCEPT !.pc = "poll", !.run = ctl.new, !.next = @ + 1,
                                       !.iter = 0, !.obs = "none", !.new = 0]
                      ELSE ImplNextIter
    /\ UNCHANGED <<now, ext, runs, task, watch, stop, retry, get, cm, published, calls,
                   forced, stage, conf>>
    /\ UNCHANGED resilience
    /\ UNCHANGED catalog
    /\ UNCHANGED <<cache, reply, run_id, watch2>>

\* no DAG follows the one just triggered: update_task_status(COMPLETED), return;
\* when that raises the loop goes on with the same run
ImplComplete ==
    /\ ctl.pc = "schedule"
    /\ ~(ctl.next + 1 < ChainLen)
    /\ \E ok \in BOOLEAN :
         IF ok THEN task' = "completed" /\ ctl' = [ctl EXCEPT !.pc = "done", !.new = 0]
               ELSE task' = task /\ ctl' = ImplNextIter
    /\ UNCHANGED <<now, ext, runs, watch, stop, retry, get, cm, published, calls, forced,
                   stage, conf>>
    /\ UNCHANGED resilience
    /\ UNCHANGED catalog
    /\ UNCHANGED <<cache, reply, run_id, watch2>>

\* state in ["failed", "up_for_retry", "upstream_failed"]: task FAILED, return
ImplFailed ==
    /\ ctl.pc = "act"
    /\ ctl.obs \in ImplFailedStates
    /\ task' = "failed"
    /\ ctl' = [ctl EXCEPT !.pc = "done"]
    /\ UNCHANGED <<now, ext, runs, watch, stop, retry, get, cm, published, calls, forced,
                   stage, conf>>
    /\ UNCHANGED resilience
    /\ UNCHANGED catalog
    /\ UNCHANGED <<cache, reply, run_id, watch2>>

\* the same, update_task_status raises: the loop goes on
ImplFailedError ==
    /\ ctl.pc = "act"
    /\ ctl.obs \in ImplFailedStates
    /\ ctl' = ImplNextIter
    /\ UNCHANGED <<now, ext, runs, task, watch, stop, retry, get, cm, published, calls,
                   forced, stage, conf>>
    /\ UNCHANGED resilience
    /\ UNCHANGED catalog
    /\ UNCHANGED <<cache, reply, run_id, watch2>>

\* mutation: the task returns when the run has not finished yet
ImplWaitGivesUp ==
    /\ ctl.pc = "act"
    /\ ~ImplSucceeded(ctl.obs)
    /\ ctl.obs \notin ImplFailedStates
    /\ ctl' = [ctl EXCEPT !.pc = "done"]
    /\ UNCHANGED <<now, ext, runs, task, watch, stop, retry, get, cm, published, calls,
                   forced, stage, conf>>
    /\ UNCHANGED resilience
    /\ UNCHANGED catalog
    /\ UNCHANGED <<cache, reply, run_id, watch2>>

\* "Still running, continue monitoring"
ImplWait ==
    /\ ctl.pc = "act"
    /\ ~ImplSucceeded(ctl.obs)
    /\ ctl.obs \notin ImplFailedStates
    /\ ctl' = ImplNextIter
    /\ UNCHANGED <<now, ext, runs, task, watch, stop, retry, get, cm, published, calls,
                   forced, stage, conf>>
    /\ UNCHANGED resilience
    /\ UNCHANGED catalog
    /\ UNCHANGED <<cache, reply, run_id, watch2>>

\* "Timeout waiting for DAG ... to complete"
ImplTimeout ==
    /\ ctl.pc = "poll"
    /\ ctl.iter >= MaxIters
    /\ ctl' = [ctl EXCEPT !.pc = "timeout"]
    /\ UNCHANGED <<now, ext, runs, task, watch, stop, retry, get, cm, published, calls,
                   forced, stage, conf>>
    /\ UNCHANGED resilience
    /\ UNCHANGED catalog
    /\ UNCHANGED <<cache, reply, run_id, watch2>>

\* ----------------------------------------------------- _trigger_next_dag
\* the monitor's run succeeded and a DAG follows: trigger it and schedule its
\* monitor; any exception marks the task FAILED, and when that raises too the
\* monitor's loop logs it and goes on
CmTriggerNext ==
    /\ cm.pc = "advance"
    /\ cm.dag_index + 1 < ChainLen
    /\ \E r \in RunIds : ext[r].state = "none"
    /\ \E out \in TriggerOutcomes, sched \in BOOLEAN, upd \in BOOLEAN :
         /\ TriggerWorkflow(FreshRun, cm.dag_index + 1,
                            [dag_index |-> cm.dag_index + 1, dag_total |-> ChainLen], out)
         /\ IF out = "ok" /\ sched
            THEN /\ cm' = [IdleCm EXCEPT !.pc = "load", !.run = FreshRun,
                                         !.dag_index = cm.dag_index + 1]
                 /\ task' = task
            ELSE IF upd
            THEN /\ cm' = [cm EXCEPT !.pc = "done"]
                 /\ task' = "failed"
            ELSE /\ cm' = CmNextCheck
                 /\ task' = task
    /\ UNCHANGED <<now, watch, stop, retry, get, published, calls, forced, ctl>>
    /\ UNCHANGED resilience
    /\ UNCHANGED catalog
    /\ UNCHANGED <<cache, reply, watch2>>

\* ------------------------------------------------ retry_async / retry_sync
\* retry_async(func, config) is called (retry_sync runs the same loop with
\* time.sleep): the first iteration of the loop begins
RetryStart ==
    /\ rt.pc = "idle"
    /\ \E config \in RetryConfigs :
         /\ cfg' = config
         /\ rt' = FirstAttempt
    /\ UNCHANGED <<now, workflows, circuit, req, streak, tripped_at, retripped>>

\* func returns: the result is returned to the caller
RetryFuncReturns ==
    /\ rt.pc = "call"
    /\ rt' = [rt EXCEPT !.pc = "returned", !.invoked = @ + 1]
    /\ UNCHANGED <<now, workflows, circuit, req, streak, tripped_at, retripped, cfg>>

\* func raises an exception of class kind
RetryFuncRaises(kind) ==
    /\ rt.pc = "call"
    /\ rt' = RetryOnError([rt EXCEPT !.invoked = @ + 1], cfg,
                          [kind |-> kind, attempt |-> rt.attempt])
    /\ UNCHANGED <<now, workflows, circuit, req, streak, tripped_at, retripped, cfg>>

\* the sleep ends (this loop is followed without a clock)
RetryWake ==
    /\ rt.pc = "sleep"
    /\ rt' = NextAttempt(rt)
    /\ UNCHANGED <<now, workflows, circuit, req, streak, tripped_at, retripped, cfg>>

\* ------------------------------------------- AirflowClient._make_request
\* the breaker's clock: seconds, and steps that outlast recovery_timeout
BreakerTick ==
    /\ \E d \in {1, recovery_timeout + 1} :
         /\ now + d <= MaxNow
         /\ d = 1 => (now % (recovery_timeout + 1)) <= MaxFine
         /\ now' = now + d
    /\ UNCHANGED <<workflows, resilience>>

\* the same clock in seconds throughout, and steps of recovery_timeout
RecoveryTick ==
    /\ \E d \in {1, recovery_timeout} :
         /\ now + d <= MaxLate
         /\ now' = now + d
    /\ UNCHANGED <<workflows, resilience>>

\* caller c is at the top of the retry loop of _make_request
\* (with_retry(EXTERNAL_SERVICE_RETRY) around the breaker's wrapper around the
\* HTTP request): it enters the function, or its sleep after a failed attempt
\* is over.  Nothing is awaited between there and the await of the request.
CanAttempt(c) ==
    \/ req[c].pc \in {"idle", "returned", "raised"}
    \/ req[c].pc = "sleep" /\ now >= req[c].wake

\* its retry loop at the call of the wrapper
Attempting(c) == IF req[c].pc = "sleep" THEN NextAttempt(req[c]) ELSE FirstAttempt

\* wrapper, state OPEN and no reset due: raise Exception("Circuit breaker is OPEN"),
\* which the retry loop around the wrapper handles as any error of the call
CallFailFast(c) ==
    /\ CanAttempt(c)
    /\ circuit.state = "OPEN"
    /\ ~ShouldAttemptReset(circuit, now)
    /\ \E r \in Asleep(RetryOnError(Attempting(c), cfg,
                                    [kind |-> "Exception",
                                     attempt |-> Attempting(c).attempt]), now) :
         req' = [req EXCEPT ![c] = r]
    /\ UNCHANGED <<now, workflows, circuit, streak, tripped_at, retripped, rt, cfg>>

\* wrapper, state OPEN and a reset is due: HALF_OPEN, then await func
CallHalfOpen(c) ==
    /\ CanAttempt(c)
    /\ circuit.state = "OPEN"
    /\ ShouldAttemptReset(circuit, now)
    /\ circuit' = [circuit EXCEPT !.state = "HALF_OPEN"]
    /\ req' = [req EXCEPT ![c] = [Attempting(c) EXCEPT !.pc = "func", !.invoked = @ + 1,
                                                       !.trial = TRUE]]
    /\ UNCHANGED <<now, workflows, streak, tripped_at, retripped, rt, cfg>>

\* wrapper, state CLOSED or HALF_OPEN: await func
CallThrough(c) ==
    /\ CanAttempt(c)
    /\ circuit.state # "OPEN"
    /\ req' = [req EXCEPT ![c] = [Attempting(c) EXCEPT
                                    !.pc = "func", !.invoked = @ + 1,
                                    !.trial = (circuit.state = "HALF_OPEN")]]
    /\ UNCHANGED <<now, workflows, circuit, streak, tripped_at, retripped, rt, cfg>>

\* the request answers: _on_success, the result is returned
FuncReturns(c) ==
    /\ req[c].pc = "func"
    /\ circuit' = OnSuccess(circuit)
    /\ streak' = 0
    /\ req' = [req EXCEPT ![c] = [IdleRetry EXCEPT !.pc = "returned"]]
    /\ UNCHANGED <<now, workflows, tripped_at, retripped, rt, cfg>>

\* the request raises ExternalServiceError: _on_failure, re-raised into the retry loop
FuncRaises(c) ==
    /\ req[c].pc = "func"
    /\ circuit.failure_count < MaxFailures
    /\ circuit' = OnFailure(circuit, now)
    /\ streak' = streak + 1
    /\ tripped_at' = IF circuit.state # "OPEN" /\ OnFailure(circuit, now).state = "OPEN"
                     THEN now ELSE tripped_at
    /\ retripped' = IF circuit.state # "OPEN" /\ OnFailure(circuit, now).state = "OPEN"
                    THEN req[c].trial /\ circuit.state = "HALF_OPEN"
                    ELSE retripped
    /\ \E r \in Asleep(RetryOnError([req[c] EXCEPT !.trial = FALSE], cfg,
                                     [kind |-> "ExternalServiceError",
                                      attempt |-> req[c].attempt]), now) :
         req' = [req EXCEPT ![c] = r]
    /\ UNCHANGED <<now, workflows, rt, cfg>>

\* ----------------------------------------------------------------- claims
\* a step in which an observed external state is written to a run's row
ObservationWrite ==
    WatchUpdate \/ GetWrite \/ CmSuccess \/ CmFailed \/ CmFailedError \/ CmTransient

\* C1: when StopRun has committed FAILED before the watch task writes its
\* observation of "success", the stored status stays FAILED.
C1_StopWinsOverObservedSuccess ==
    [][(/\ WatchUpdate
        /\ watch.obs.state = "success"
        /\ watch.run \in forced
        /\ runs[watch.run].status = "failed")
       => runs'[watch.run].status = "failed"]_vars

\* C2: once StopRun has forced FAILED, no write of an observed state by the
\* watch task, the chain monitor or GetRunStatus leaves a non-terminal status.
C2_ForcedFailedNeverDowngraded ==
    [][\A r \in RunIds :
         (ObservationWrite /\ r \in forced /\ runs[r].status = "failed")
         => runs'[r].status \in TerminalStatus]_vars

\* C3: every StopRun of a run that has a row ends with the stored status
\* FAILED, also when the cancel (patch) call fails.
C3_StopAlwaysForcesFailed ==
    [][\A r \in RunIds :
         ((StopPatchError(r) \/ StopCommit(r)) /\ runs[r].status # "absent")
         => runs'[r].status = "failed"]_vars

\* C4: when the watch task observes on two consecutive polls the same external
\* state, which the row already shows, the second observation publishes no
\* event and changes neither start_date nor end_date of the row.
C4_SecondObservationIsIdempotent ==
    [][(/\ WatchUpdate \/ WatchPublish
        /\ watch.obs.state = watch.prev
        /\ runs[watch.run].status = MapAirflowStatus(watch.obs.state))
       => /\ published' = published
          /\ runs'[watch.run].start_date = runs[watch.run].start_date
          /\ runs'[watch.run].end_date = runs[watch.run].end_date]_vars

\* C5: once start_date is set, no write of an observed state by the watch
\* task, the chain monitor or GetRunStatus changes it.
C5_StartDateSetOnce ==
    [][\A r \in RunIds :
         (ObservationWrite /\ runs[r].start_date # NoDate)
         => runs'[r].start_date = runs[r].start_date]_vars

\* C6: in every stored row end_date is set if and only if the status is terminal.
C6_EndDateIffTerminal ==
    \A r \in RunIds :
        runs[r].status # "absent"
        => (runs[r].end_date # NoDate <=> runs[r].status \in TerminalStatus)

\* the run whose completion the acting chain controller is waiting for
MonitoredRun == IF ctl.pc = "act" THEN ctl.run ELSE cm.run

\* the acting chain controller's latest observation of that run
MonitoredObs == IF ctl.pc = "act" THEN ctl.obs ELSE cm.obs.state

\* a step in which a chain controller's trigger call starts run r of a later stage
ChainTriggers(r) == ext[r].state = "none" /\ ext'[r].state # "none" /\ stage'[r] > 0

\* C7: a run of stage k > 0 is triggered only by a controller that has observed
\* the run of stage k-1 in external state success, and while that run is in
\* state success (neither non-terminal nor failed).
C7_TriggerOnlyAfterPredecessorSuccess ==
    [][\A r \in RunIds :
         ChainTriggers(r)
         => /\ stage[MonitoredRun] = stage'[r] - 1
            /\ MonitoredObs = "success"
            /\ ext[MonitoredRun].state = "success"]_vars

\* the chain has walked to its last stage
C7_Witness ==
    \E r \in RunIds : stage[r] = ChainLen - 1 /\ ext[r].state # "none"

\* C8: at the moment a run of stage N+1 is triggered, the stored row of the run
\* of stage N has status SUCCESS.
C8_PredecessorStoredSuccessAtTrigger ==
    [][\A r \in RunIds :
         ChainTriggers(r) => runs[MonitoredRun].status = "success"]_vars

\* C9: the second stage of the chain is triggered at most once.
C9_SecondStageTriggeredOnce ==
    Cardinality({r \in RunIds : ext[r].state # "none" /\ stage[r] = 1}) <= 1

\* C10: a chain controller that handles an observation of failed or
\* upstream_failed triggers nothing and marks the task FAILED.
C10_FailureHaltsChainAndFailsTask ==
    [][(\/ /\ ctl.pc = "act"
           /\ ctl.obs \in {"failed", "upstream_failed"}
           /\ (ImplTrigger \/ ImplFailed \/ ImplWait)
        \/ /\ cm.pc = "apply"
           /\ cm.obs.state \in {"failed", "upstream_failed"}
           /\ (CmSuccess \/ CmFailed \/ CmTransient \/ CmOther))
       => (task' = "failed" /\ ext' = ext)]_vars

\* C11: the task becomes COMPLETED only when the run of the chain's last DAG
\* is in external state success, never while that run is queued or running.
C11_CompletedOnlyAfterLastStageSuccess ==
    [][(task # "completed" /\ task' = "completed")
       => \E r \in RunIds : stage[r] = ChainLen - 1 /\ ext[r].state = "success"]_vars

\* C12: every run a chain controller triggers for a later stage carries that
\* stage's index and the length of the chain in its parameters.
C12_ChainRunsCarryTheirStageIndex ==
    \A r \in RunIds :
        stage[r] > 0 => conf[r] = [dag_index |-> stage[r], dag_total |-> ChainLen]

\* a step in which caller c enters the breaker's wrapper
CallEnters(c) == CallFailFast(c) \/ CallHalfOpen(c) \/ CallThrough(c)

\* C13: in CLOSED a failure of the wrapped call adds one to the counter and a
\* success resets it, so that the breaker opens exactly on the failure that
\* makes failure_threshold failures since the last success.
C13_TripsAtThresholdConsecutiveFailures ==
    [][\A c \in Callers :
         ((FuncReturns(c) \/ FuncRaises(c)) /\ circuit.state = "CLOSED")
         => /\ circuit'.state \in {"CLOSED", "OPEN"}
            /\ circuit'.state = "OPEN" <=> streak' = failure_threshold
            /\ circuit'.failure_count = streak']_vars

\* the breaker has tripped on its third consecutive failure
C13_Witness ==
    circuit.state = "OPEN" /\ streak = failure_threshold /\ tripped_at # NoDate

\* C14: a call entering the wrapper while the breaker is OPEN fails fast, the
\* wrapped function not being invoked, as long as recovery_timeout has not
\* elapsed since the trip; once it has, the call moves the breaker to
\* HALF_OPEN and is passed through.
C14_OpenFailsFastUntilRecoveryTimeout ==
    [][\A c \in Callers :
         (CallEnters(c) /\ circuit.state = "OPEN")
         => IF now - tripped_at > recovery_timeout
            THEN circuit'.state = "HALF_OPEN" /\ req'[c].pc = "func"
            ELSE circuit' = circuit /\ req'[c].pc # "func"]_vars

\* C15: at most one call let through in HALF_OPEN is in flight at a time.
C15_OneTrialCallInHalfOpen ==
    Cardinality({c \in Callers : req[c].pc = "func" /\ req[c].trial}) <= 1

\* C16: a HALF_OPEN trial call that succeeds leaves the breaker CLOSED with
\* failure_count 0; one that fails leaves it OPEN with the recovery timer
\* restarted, and until recovery_timeout has elapsed since that failure every
\* call fails fast.
C16_TrialOutcome ==
    [][\A c \in Callers :
         /\ (FuncReturns(c) /\ req[c].trial /\ circuit.state = "HALF_OPEN")
            => (circuit'.state = "CLOSED" /\ circuit'.failure_count = 0)
         /\ (FuncRaises(c) /\ req[c].trial /\ circuit.state = "HALF_OPEN")
            => (circuit'.state = "OPEN" /\ circuit'.last_failure_time = now)
         /\ (/\ CallEnters(c)
             /\ retripped
             /\ now - tripped_at <= recovery_timeout)
            => req'[c].pc # "func"]_vars

\* C17: a request whose first attempt is short-circuited by the OPEN breaker
\* raises to its caller at once: no further attempt, no sleep.
C17_CircuitOpenIsNotRetried ==
    [][\A c \in Callers :
         (CallFailFast(c) /\ req[c].pc # "sleep")
         => (req'[c].pc = "raised" /\ req'[c].sleeps = 0)]_vars

\* min(base_delay * backoff_factor^(k-1), max_delay), written out
C18_Expected(k) ==
    IF cfg.delay * (cfg.backoff_factor ^ (k - 1)) <= cfg.max_delay
    THEN cfg.delay * (cfg.backoff_factor ^ (k - 1))
    ELSE cfg.max_delay

\* C18: the delay before jitter of the sleep after attempt k is
\* min(base_delay * backoff_factor^(k-1), max_delay); it never exceeds
\* max_delay, is not less than the delay after attempt k-1, and with
\* base_delay 2, backoff_factor 2, max_delay 30 it is 2, 4, 8, 16, 30, 30, ...
C18_BackoffBeforeJitter ==
    rt.pc = "sleep"
    => /\ rt.delay = C18_Expected(rt.attempt)
       /\ rt.delay <= cfg.max_delay
       /\ rt.attempt > 1 => rt.delay >= C18_Expected(rt.attempt - 1)
       /\ (cfg.delay = 2 /\ cfg.backoff_factor = 2 /\ cfg.max_delay = 30)
          => rt.delay = IF rt.attempt <= 4 THEN <<2, 4, 8, 16>>[rt.attempt] ELSE 30

\* the sixth delay of the sequence 2, 4, 8, 16, 30, 30
C18_Witness ==
    /\ rt.pc = "sleep" /\ rt.attempt = 6 /\ rt.delay = 30
    /\ cfg.delay = 2 /\ cfg.backoff_factor = 2 /\ cfg.max_delay = 30

\* C19: when the error that reaches the caller is retryable, func was invoked
\* max_attempts times, the loop slept max_attempts - 1 times and the error is
\* that of the last attempt; a non-retryable error reaches the caller from the
\* attempt that raised it, with no sleep after it (none at all on attempt 1);
\* the loop never sleeps after its last attempt.
C19_RetryExhaustion ==
    /\ (rt.pc = "raised" /\ IsInstance(rt.error.kind, cfg.exceptions))
       => /\ rt.invoked = cfg.max_attempts
          /\ rt.sleeps = cfg.max_attempts - 1
          /\ rt.error.attempt = cfg.max_attempts
          /\ rt.error = rt.last_exception
    /\ (rt.pc = "raised" /\ ~IsInstance(rt.error.kind, cfg.exceptions))
       => /\ rt.error.attempt = rt.attempt
          /\ rt.invoked = rt.attempt
          /\ rt.sleeps = rt.attempt - 1
    /\ rt.pc = "sleep" => rt.attempt < cfg.max_attempts

\* three attempts have failed with a retryable error
C19_Witness ==
    /\ rt.pc = "raised" /\ IsInstance(rt.error.kind, cfg.exceptions)
    /\ cfg.max_attempts = 3 /\ rt.invoked = 3 /\ rt.sleeps = 2

\* C20: a watch task or chain monitor that runs out of polls ends without
\* writing any status, publishing any event or touching the task, so that a
\* run stored as RUNNING stays RUNNING; it takes no further step afterwards.
C20_TimeoutWritesNothing ==
    [][/\ (WatchTimeout \/ CmTimeout)
          => (runs' = runs /\ published' = published /\ task' = task)
       /\ watch.pc = "timeout" => watch' = watch
       /\ cm.pc = "timeout" => cm' = cm]_vars

\* the watch task has timed out on a run it last saw, and stored, as running
C20_Witness ==
    /\ watch.pc = "timeout" /\ watch.prev = "running"
    /\ runs[watch.run].status = "running"

\* C21: each of the ten known state strings maps to the status of the same
\* name, every other string maps to QUEUED and so to no terminal status, and the
\* watch task's mapping and GetRunStatus's mapping agree on every string.
C21_MappingTotalAndSafe ==
    \A r \in RunIds :
        LET s == ext[r].state
        IN  s # "none"
            => /\ s \in WorkflowStatus => MapAirflowStatus(s) = s
               /\ s \notin WorkflowStatus
                  => (MapAirflowStatus(s) = "queued"
                      /\ MapAirflowStatus(s) \notin TerminalStatus)
               /\ UseCaseMapAirflowStatus(s) = MapAirflowStatus(s)

\* the watch task has read an unknown state string, stored QUEUED for it and
\* gone on to its next poll
C21_Witness ==
    /\ watch.pc = "poll"
    /\ watch.prev \in UnknownStates
    /\ runs[watch.run].status = "queued"

\* a watch task that is in its poll loop
Polling(w) == w.pc \in {"poll", "update", "publish"}

\* C22: at any time at most one watch task is polling a given run, also when
\* the periodic sweep fires while the watch the trigger endpoint started for
\* that run is still running.
C22_OneWatchPerRun ==
    ~(Polling(watch) /\ Polling(watch2) /\ watch.run = watch2.run)

\* C23: once a completed or failed event has been published for a run, no
\* started event is published for it (one run is followed, and no RetryRun).
C23_PublishedInDiscoveryOrder ==
    [][published'["workflow_started"] > published["workflow_started"]
       => published["workflow_completed"] + published["workflow_failed"] = 0]_vars

\* C24: a watch task whose loop body has handled an observation that maps to
\* SUCCESS, FAILED, UPSTREAM_FAILED, SKIPPED or REMOVED polls no more.
C24_WatchStopsOnTerminal ==
    [][(WatchPublish /\ MapAirflowStatus(watch.obs.state) \in TerminalStatus)
       => watch'.pc = "done"]_vars

\* C25: the watch task writes the status cache and publishes an event for an
\* observation only when the run's row stores the observed status (the watch
\* task being the only writer of the row).
C25_PublishOnlyWhatIsStored ==
    [][(WatchPublish /\ (published' # published \/ cache' # cache))
       => runs[watch.run].status = MapAirflowStatus(watch.obs.state)]_vars

\* C26: when publishing the triggered, stopped or retried event fails after the
\* run was committed, the stored run keeps the committed status and timestamps:
\* QUEUED with no dates for trigger and retry, FAILED ended now for stop.
C26_PublishFailureKeepsCommit ==
    [][\A r \in RunIds :
         /\ (\E k \in 0..(ChainLen - 1) : TriggerPublishError(r, k))
            => runs'[r] = QueuedRow
         /\ (StopCommit(r) /\ runs[r].status # "absent" /\ published' = published)
            => (runs'[r].status = "failed" /\ runs'[r].end_date = now
                /\ runs'[r].start_date = runs[r].start_date)
         /\ (RetryCommit(r) /\ runs[r].status # "absent" /\ published' = published)
            => runs'[r] = QueuedRow]_vars

\* StopRun has ended with an error for a run it stored as FAILED, no stopped
\* event having been published
C26_Witness ==
    /\ reply = "ExternalServiceError"
    /\ stop.pc = "idle"
    /\ published["workflow_stopped"] = 0
    /\ \E r \in forced : runs[r].status = "failed" /\ runs[r].end_date = now

\* C27: after StopRun or RetryRun has published its event for a run whose
\* status a watch task cached earlier, the cached status is the stored one.
C27_PublishRefreshesCache ==
    [][\A r \in RunIds :
         ((StopCommit(r) \/ RetryCommit(r)) /\ published' # published /\ cache[r] # "none")
         => cache'[r] = runs'[r].status]_vars

\* C28: a trigger request whose workflow, task or dataset does not exist fails
\* with NotFound, starts no run in the orchestrator, stores no row and
\* publishes no event.
C28_TriggerNotFoundDoesNothing ==
    [][\A r \in RunIds, k \in 0..(ChainLen - 1), missing \in CommandRefs :
         TriggerNotFound(r, k, missing)
         => /\ reply' = "EntityNotFound"
            /\ ext' = ext
            /\ runs' = runs
            /\ published' = published]_vars

\* a trigger request has failed with NotFound beside a run that was triggered
C28_Witness ==
    /\ reply = "EntityNotFound"
    /\ \E r \in RunIds : runs[r].status = "queued"

\* C29: any two runs that TriggerRun has started carry distinct run_ids.
C29_RunIdsDistinct ==
    \A r1, r2 \in RunIds :
        (r1 # r2 /\ run_id[r1] # NoRunId /\ run_id[r2] # NoRunId)
        => run_id[r1] # run_id[r2]

\* C30: StopRun and RetryRun of a run that has no row end with NotFound.
C30_NoRowIsNotFound ==
    [][\A r \in RunIds :
         ((StopCommit(r) \/ RetryCommit(r)) /\ runs[r].status = "absent")
         => reply' = "EntityNotFound"]_vars

\* C31: when the state GetRunStatus reads from the orchestrator maps to the status
\* the run is stored with, GetRunStatus leaves the stored run unchanged and
\* publishes no event.
C31_GetWritesOnlyIfDifferent ==
    [][(GetWrite /\ UseCaseMapAirflowStatus(get.obs.state) = runs[get.run].status)
       => (runs' = runs /\ published' = published)]_vars

\* C32: a poll that raises does not end the watch: the watch counts the attempt
\* and polls the same run again; it ends only on an observation that maps to a
\* terminal status or when the attempts are used up.
C32_PollErrorDoesNotAbort ==
    [][/\ WatchPollError
          => (watch'.pc = "poll" /\ watch'.run = watch.run
              /\ watch'.attempt = watch.attempt + 1)
       /\ (watch.pc # "done" /\ watch'.pc = "done")
          => MapAirflowStatus(watch.obs.state) \in TerminalStatus
       /\ (watch.pc # "timeout" /\ watch'.pc = "timeout")
          => watch.attempt >= MaxAttempts]_vars

\* the watch has read a state on the poll that followed a poll error
C32_Witness == watch.pc = "update" /\ watch.attempt >= 1 /\ watch.prev = "none"

\* C33: the chain controller marks the task FAILED only on an observation that
\* maps to a terminal status; UP_FOR_RETRY is not one.
C33_FailedOnlyOnTerminal ==
    [][ImplFailed => MapAirflowStatus(ctl.obs) \in TerminalStatus]_vars

\* C34: whatever get_or_create_workflow calls have been made for a dag_id, and
\* however they interleaved, at most one Workflow row carries it, and exactly
\* one once a call for it has returned a workflow.
C34_OneWorkflowPerDag ==
    /\ \A k \in 0..(ChainLen - 1) : wf_rows[k] <= 1
    /\ \A c \in Creators :
          goc[c].result \in {"existing", "created"} => wf_rows[goc[c].dag] = 1

\* C35: the breaker leaves OPEN only for HALF_OPEN, and only when
\* recovery_timeout has elapsed; it never goes from OPEN to CLOSED, also when a
\* call that was let through before the trip succeeds after it.
C35_OpenLeavesOnlyToHalfOpen ==
    [][(circuit.state = "OPEN" /\ circuit'.state # "OPEN")
       => (circuit'.state = "HALF_OPEN" /\ ShouldAttemptReset(circuit, now))]_vars

\* C36: in every state of the breaker, CLOSED goes with a failure_count below
\* failure_threshold, and OPEN with a failure_count of at least
\* failure_threshold and a last_failure_time.
C36_StateAndCounterConsistent ==
    /\ circuit.state = "CLOSED" => circuit.failure_count < failure_threshold
    /\ circuit.state = "OPEN"
       => (circuit.failure_count >= failure_threshold /\ circuit.last_failure_time # NoDate)

\* the breaker is OPEN while a call let through earlier is still in flight
C36_Witness ==
    /\ circuit.state = "OPEN"
    /\ \E c \in Callers : req[c].pc = "func"

\* C37: an operation whose max_attempts attempts all fail, no call succeeding
\* meanwhile, leaves the breaker OPEN; an operation whose first attempt the OPEN
\* breaker refused does not invoke the request on its next attempt, made when
\* its sleep ends.
C37_RefusedOperationMakesNoRequest ==
    [][\A c \in Callers :
         /\ (FuncRaises(c) /\ req[c].invoked = cfg.max_attempts
             /\ streak' >= cfg.max_attempts)
            => circuit'.state = "OPEN"
         /\ (req[c].pc = "sleep" /\ req[c].invoked = 0 /\ now = req[c].wake)
            => req'[c].pc # "func"]_vars

\* the watch task, the chain controller task have returned
WatchEnded == watch.pc \in {"done", "timeout"}
ImplEnded == ctl.pc \in {"done", "timeout"}

\* C38: every watch task terminates.  The run watch polls only while attempt is
\* below max_attempts, each of its iterations ends the task or adds one to
\* attempt, and once started it eventually returns; the chain controller task
\* polls only while its range is not used up, and each of its iterations ends
\* the task, hands over to the task of the next DAG or uses up one element.
C38_WatchTerminates ==
    /\ [][/\ (WatchPoll \/ WatchPollError) => watch.attempt < MaxAttempts
          /\ (Polling(watch) /\ watch' # watch)
             => \/ WatchEnded'
                \/ watch'.pc = "poll" /\ watch'.attempt = watch.attempt + 1
                \/ /\ watch'.attempt = watch.attempt
                   /\ <<watch.pc, watch'.pc>> \in {<<"poll", "update">>, <<"update", "publish">>}
          /\ (ImplPoll \/ ImplPollError) => ctl.iter < MaxIters
          /\ (ctl.pc \in {"poll", "act", "schedule"} /\ ctl' # ctl)
             => \/ ImplEnded'
                \/ ctl'.pc = "poll" /\ ctl'.iter = ctl.iter + 1
                \/ ctl'.pc = "poll" /\ ctl'.iter = 0 /\ ctl'.next = ctl.next + 1
                \/ /\ ctl'.iter = ctl.iter
                   /\ <<ctl.pc, ctl'.pc>> \in {<<"poll", "act">>, <<"act", "schedule">>}]_vars
    /\ (Polling(watch) ~> WatchEnded)

\* the run watch has used up its attempts, the last of them on an error
C38_Witness == watch.pc = "timeout" /\ watch.attempt = MaxAttempts /\ watch.prev = "none"

\* C39: a trigger request that fails with ExternalServiceError has stored no
\* row and has started no run in the orchestrator.
C39_TriggerAllOrNothing ==
    [][\A r \in RunIds, k \in 0..(ChainLen - 1) :
         ((TriggerDagError(r, k) \/ TriggerRowError(r, k) \/ TriggerPublishError(r, k))
          /\ reply' = "ExternalServiceError")
         => (runs' = runs /\ ext' = ext)]_vars

\* the runs triggered so far are one per DAG, in the order of the chain
TriggeredInChainOrder ==
    \A r \in RunIds : ext[r].state # "none" => stage[r] = r - 1

\* every DAG of the chain has been triggered exactly once, in the order of the
\* chain, and the task is COMPLETED
ChainDone ==
    /\ task = "completed"
    /\ TriggeredInChainOrder
    /\ \A k \in 0..(ChainLen - 1) :
          Cardinality({r \in RunIds : ext[r].state # "none" /\ stage[r] = k}) = 1

Environment ==
    \/ Tick
    \/ \E r \in RunIds : ExtStart(r) \/ ExtFinish(r)

WatchTask ==
    \/ WatchPoll \/ WatchPollError \/ WatchUpdate \/ WatchPublish \/ WatchPublishError
    \/ WatchTimeout

StopRun == \E r \in RunIds : StopPatch(r) \/ StopPatchError(r) \/ StopCommit(r)

RetryRun == \E r \in RunIds : RetryClear(r) \/ RetryClearError(r) \/ RetryCommit(r)

GetRunStatus == (\E r \in RunIds : GetLoad(r)) \/ GetQuery \/ GetQueryError \/ GetWrite

ChainMonitor ==
    \/ CmLoad \/ CmQuery \/ CmQueryError \/ CmSuccess \/ CmComplete \/ CmFailed
    \/ CmFailedError \/ CmTransient \/ CmOther \/ CmTimeout

\* a run of some DAG
TriggerAnyDag(r) == TriggerApi(r, 0)

\* one run, its watch task and the three commands
Next ==
    \/ Environment
    \/ \E r \in RunIds : TriggerAnyDag(r)
    \/ WatchTask
    \/ StopRun
    \/ RetryRun
    \/ GetRunStatus

Spec == Init /\ [][Next]_vars

\* a run of the chain's last DAG, and its run handed to start_dag_chain_monitoring
TriggerLastDag(r) == TriggerApi(r, ChainLen - 1)

MonitorLastDag(r) == StartDagChainMonitoring(r, ChainLen - 1)

\* one run of the last DAG, its watch task, its chain monitor and StopRun
MonitorNext ==
    \/ Environment
    \/ \E r \in RunIds : TriggerLastDag(r) \/ MonitorLastDag(r)
    \/ WatchTask
    \/ StopRun
    \/ ChainMonitor

MonitorSpec == Init /\ [][MonitorNext]_vars

ChainController ==
    \/ ImplPoll \/ ImplPollError \/ ImplTrigger \/ ImplScheduleNext \/ ImplComplete
    \/ ImplFailed \/ ImplFailedError \/ ImplWait \/ ImplTimeout

\* the first DAG triggered through the endpoint instead of execute_task
TriggerFirstDag(r) == task = "pending" /\ TriggerApi(r, 0)

\* its run handed to start_dag_chain_monitoring, no chain controller being at work
MonitorFirstDag(r) == ctl.pc = "idle" /\ StartDagChainMonitoring(r, 0)

\* one task walking the chain, under either chain controller
ChainNext ==
    \/ \E r \in RunIds : ExtStart(r) \/ ExtFinish(r)
    \/ ExecuteTask
    \/ ChainController
    \/ \E r \in RunIds : TriggerFirstDag(r) \/ MonitorFirstDag(r)
    \/ ChainMonitor
    \/ CmTriggerNext

ChainSpec == Init /\ [][ChainNext]_vars

\* one task walking the chain under trigger_next_dag_after_completion, the
\* runs' tasks being retried by the orchestrator
ControllerNext ==
    \/ \E r \in RunIds : ExtStart(r) \/ ExtFinish(r) \/ ExtUpForRetry(r)
    \/ ExecuteTask
    \/ ChainController

ControllerSpec == Init /\ [][ControllerNext]_vars

\* concurrent callers of get_or_create_workflow, for any DAG of the chain
GetOrCreateWorkflow ==
    \E c \in Creators :
        \/ \E k \in 0..(ChainLen - 1) : GetByDagId(c, k)
        \/ CreateWorkflow(c)

CatalogSpec == Init /\ [][GetOrCreateWorkflow]_vars

\* the run watch and the chain controller tasks, each scheduled by its worker
\* until it returns
TerminationNext ==
    \/ \E r \in RunIds : ExtStart(r) \/ ExtFinish(r)
    \/ \E r \in RunIds : TriggerAnyDag(r)
    \/ ExecuteTask
    \/ WatchTask
    \/ WatchCacheError
    \/ ChainController

TerminationSpec ==
    Init /\ [][TerminationNext]_vars /\ WF_vars(WatchTask \/ WatchCacheError)

\* the steps of the chain controller in which no call fails
ProgressController ==
    \/ ImplPoll
    \/ ImplTrigger /\ ctl'.pc = "schedule"
    \/ ImplScheduleNext /\ ctl'.iter = 0
    \/ ImplComplete /\ task' = "completed"
    \/ ImplWait
    \/ ImplTimeout

\* one task walking the chain, every run succeeding and no call failing; the
\* worker runs the controller task until it returns
ProgressNext ==
    \/ Tick
    \/ \E r \in RunIds : ExtStart(r)
    \/ \E r \in RunIds : ExtFinish(r) /\ ext'[r].state = "success"
    \/ ExecuteTask /\ ctl'.pc = "poll"
    \/ ProgressController

ProgressSpec == Init /\ [][ProgressNext]_vars /\ WF_vars(ProgressController)

\* one run whose responses carry any state string, read by its watch task
StatusNext ==
    \/ \E r \in RunIds : TriggerAnyDag(r) \/ ExtReport(r)
    \/ WatchTask

StatusSpec == Init /\ [][StatusNext]_vars

\* one run and its watch task alone
WatchAloneNext ==
    \/ Environment
    \/ \E r \in RunIds : TriggerAnyDag(r)
    \/ WatchTask
    \/ WatchCacheError

WatchSpec == Init /\ [][WatchAloneNext]_vars

SweepWatchTask ==
    \/ Watch2Poll \/ Watch2PollError \/ Watch2Update \/ Watch2Publish \/ Watch2PublishError
    \/ Watch2CacheError \/ Watch2Timeout

\* one run, the watch task the trigger endpoint started and the periodic sweep
SweepNext ==
    \/ \E r \in RunIds : ExtStart(r) \/ ExtFinish(r)
    \/ \E r \in RunIds : TriggerAnyDag(r) \/ MonitorActiveWorkflows(r)
    \/ WatchTask
    \/ WatchCacheError
    \/ SweepWatchTask

SweepSpec == Init /\ [][SweepNext]_vars

\* requests to the trigger endpoint for any DAG of the chain, with their ways to fail
TriggerRun ==
    \E r \in 1..MaxRequests, k \in 0..(ChainLen - 1) :
        \/ TriggerApi(r, k)
        \/ \E missing \in CommandRefs : TriggerNotFound(r, k, missing)
        \/ TriggerDagError(r, k)
        \/ TriggerRowError(r, k)
        \/ TriggerPublishError(r, k)

\* the trigger and control endpoints under concurrent requests
ApiNext ==
    \/ Tick
    \/ TriggerRun
    \/ StopRun
    \/ RetryRun

ApiSpec == Init /\ [][ApiNext]_vars

\* one execution of the retry loop under some RetryConfig
RetryNext ==
    \/ RetryStart
    \/ RetryFuncReturns
    \/ \E kind \in {"ConnectionError", "ValueError"} : RetryFuncRaises(kind)
    \/ RetryWake

RetrySpec == Init /\ [][RetryNext]_vars

\* concurrent callers of _make_request sharing airflow_circuit_breaker
BreakerNext ==
    \/ BreakerTick
    \/ \E c \in Callers :
         \/ CallFailFast(c) \/ CallHalfOpen(c) \/ CallThrough(c)
         \/ FuncReturns(c) \/ FuncRaises(c)

BreakerSpec == Init /\ [][BreakerNext]_vars

\* one caller issuing one operation after another
RecoveryNext ==
    \/ RecoveryTick
    \/ CallFailFast(1) \/ CallHalfOpen(1) \/ CallThrough(1)
    \/ FuncReturns(1) \/ FuncRaises(1)

RecoverySpec == Init /\ [][RecoveryNext]_vars
====
